---------------------------- MODULE Spec2Model ----------------------------
(***************************************************************************)
(* A model of the echo-keycloak middlewares: the Keycloak authentication   *)
(* middleware (keycloak.go) and the KeycloakRoles authorization middleware *)
(* (keycloak_roles.go).  One request context travels down a chain of       *)
(* middleware instances; every handler invocation is one atomic action.    *)
(*                                                                         *)
(* Go values are records tagged with their dynamic type in the field       *)
(* "type", so that a type assertion x.(T) is the test x.type = T.  Go      *)
(* strings that the code indexes (header values, tokens) are sequences of  *)
(* one-character strings.                                                  *)
(***************************************************************************)
EXTENDS Naturals, Sequences, FiniteSets

VARIABLES
    mw,      \* the middleware instance under consideration, or none / panic
    ctx,     \* the echo.Context store of the current request (c.Get / c.Set)
    out,     \* what the instance's handler did with the current request
    passed,  \* the kinds of middleware the current request has been through
    authKeys, \* the context keys the Keycloak middleware bound for this request
    skipAnswer, \* what the instance's skipper answered for the current request
    authHeader, \* the input of a header extraction: header value and scheme
    extracted, \* what the header extractor returned for that input
    claimsMap, \* the entries of the map DefaultKeycloakConfig.Claims
    served     \* the requests one instance serves side by side

\* the variables of the studies of the header extractor and of the shared
\* claims, which the chain of middlewares leaves alone
aux == <<authHeader, extracted, claimsMap, served>>

vars == <<mw, ctx, out, passed, authKeys, skipAnswer, authHeader,
          extracted, claimsMap, served>>

---------------------------------------------------------------------------
(* Bounds of the model.                                                    *)

\* longest realm_access.roles list a decoded token carries
MaxRoles == 2
\* longest list of required roles given to the roles middleware
MaxRequired == 2
\* longest header value given to the header extractor
MaxHeader == 4
\* number of requests one instance serves side by side
NumRequests == 2

---------------------------------------------------------------------------
(* Go values.                                                              *)

\* the nil interface value / nil error
NilValue == [type |-> "nil"]

\* net/http status codes used by the package
StatusBadRequest == 400
StatusUnauthorized == 401
StatusForbidden == 403
StatusInternalServerError == 500

\* echo.NewHTTPError(code, message): an *echo.HTTPError without Internal
NewHTTPError(code, message) ==
    [type |-> "*echo.HTTPError", Code |-> code, Message |-> message,
     Internal |-> NilValue]

\* &echo.HTTPError{Code: code, Message: message, Internal: internal}
HTTPError(code, message, internal) ==
    [type |-> "*echo.HTTPError", Code |-> code, Message |-> message,
     Internal |-> internal]

ErrTokenMissing == NewHTTPError(StatusBadRequest, "missing or malformed token")

ErrClaimsMissing ==
    NewHTTPError(StatusInternalServerError, "no claims in context found")

ErrRealmAccessMissing ==
    NewHTTPError(StatusInternalServerError, "no realm_access in claims found")

ErrRolesMissing ==
    NewHTTPError(StatusInternalServerError, "no roles in realm_access claim found")

ErrRolesInvalid == NewHTTPError(StatusForbidden, "invalid roles")

\* an error of the gocloak client (a decode, signature or network error);
\* it is not an *echo.HTTPError
ErrDecode == [type |-> "error", Message |-> "could not decode accessToken"]

---------------------------------------------------------------------------
(* Text.                                                                   *)

Bearer == <<"B", "e", "a", "r", "e", "r">>
bearer == <<"b", "e", "a", "r", "e", "r">>
Basic == <<"B", "a", "s", "i", "c">>
abc123 == <<"a", "b", "c", "1", "2", "3">>

\* strings.ToLower on one character
LowerChar(ch) ==
    CASE ch = "B" -> "b"
      [] ch = "A" -> "a"
      [] ch = "E" -> "e"
      [] ch = "R" -> "r"
      [] OTHER -> ch

\* strings.ToLower
ToLower(s) == [i \in 1..Len(s) |-> LowerChar(s[i])]

\* the Go slice expression s[from:] (from counts from 0)
SliceFrom(s, from) == SubSeq(s, from + 1, Len(s))

\* the Go slice expression s[:to]
SliceTo(s, to) == SubSeq(s, 1, to)


---------------------------------------------------------------------------
(* Claims, tokens and the request context.                                 *)

RoleNames == {"admin", "editor", "user"}

\* an element of the []interface{} under realm_access.roles: a string, or
\* a JSON value of another type (a number decodes to float64)
RoleEntries ==
    {[type |-> "string", val |-> r] : r \in RoleNames} \cup {[type |-> "float64"]}

\* all sequences over S of length lo..hi
SeqsOf(S, lo, hi) == UNION {[1..n -> S] : n \in lo..hi}

\* the value found under claims["realm_access"]["roles"]
RolesValues ==
    {NilValue, [type |-> "string"]}
        \cup {[type |-> "[]interface{}", elems |-> l] : l \in SeqsOf(RoleEntries, 0, MaxRoles)}

\* the value found under claims["realm_access"]
RealmAccessValues ==
    {NilValue, [type |-> "string"]}
        \cup {[type |-> "map[string]interface{}", roles |-> r] : r \in RolesValues}

\* jwt.MapClaims, reduced to the one key the package reads
MapClaimsValues ==
    {[type |-> "jwt.MapClaims", realm_access |-> ra] : ra \in RealmAccessValues}

\* a caller-supplied claims struct given as KeycloakConfig.Claims
CustomClaims == [type |-> "*CustomClaims"]

\* a *jwt.Token
Token(valid, claims) == [type |-> "*jwt.Token", Valid |-> valid, Claims |-> claims]

\* a []string
StringSlice(l) == [type |-> "[]string", val |-> l]

\* the context keys that occur: the two defaults, one other key for each
\* slot, and the empty key of an unset field
ContextKeys == {"user", "sso", "roles", "perm", ""}

EmptyContext == [k \in ContextKeys |-> NilValue]

\* echo.Context.Get
Get(c, key) == c[key]

\* echo.Context.Set
Set(c, key, val) == [c EXCEPT ![key] = val]

\* what code outside this package may have left under "user" before the
\* chain runs: nothing, a value that is no *jwt.Token, or a token that is
\* not valid
UpstreamValues ==
    {NilValue, [type |-> "string"],
     Token(FALSE, [type |-> "jwt.MapClaims",
                   realm_access |-> [type |-> "map[string]interface{}",
                       roles |-> [type |-> "[]interface{}",
                           elems |-> <<[type |-> "string", val |-> "admin"]>>]]])}

FreshContexts == {Set(EmptyContext, "user", v) : v \in UpstreamValues}

---------------------------------------------------------------------------
(* Requests and the token extractors (keycloak.go).                        *)

\* a request carries its credential in at most one place: a header, a query
\* parameter, a path parameter or a cookie of the given name
Request(source, name, value) == [source |-> source, name |-> name, value |-> value]

NoCredentials == Request("none", "", <<>>)

HeaderValues ==
    {Bearer \o <<" ">> \o abc123,
     bearer \o <<" ">> \o abc123,
     Bearer \o <<"=">> \o abc123,
     Basic \o <<" ">> \o abc123,
     Bearer \o <<" ">>,
     Bearer}

Requests ==
    {NoCredentials}
        \cup {Request("header", "Authorization", v) : v \in HeaderValues}
        \cup {Request(s, "token", abc123) : s \in {"query", "param", "cookie"}}
        \cup {Request("cookie", "token", <<>>)}

\* c.Request().Header.Get(name): "" when the header is absent
HeaderGet(req, name) ==
    IF req.source = "header" /\ req.name = name THEN req.value ELSE <<>>

\* c.QueryParam(name): "" when the parameter is absent
QueryParam(req, name) ==
    IF req.source = "query" /\ req.name = name THEN req.value ELSE <<>>

\* c.Param(name): "" when the parameter is absent
Param(req, name) ==
    IF req.source = "param" /\ req.name = name THEN req.value ELSE <<>>

\* c.Cookie(name): http.ErrNoCookie when there is no such cookie
Cookie(req, name) ==
    IF req.source = "cookie" /\ req.name = name
    THEN [Value |-> req.value, err |-> NilValue]
    ELSE [Value |-> <<>>, err |-> [type |-> "error", Message |-> "http: named cookie not present"]]

\* what a tokenExtractor returns: (string, error)
Extracted(auth, err) == [auth |-> auth, err |-> err]

tokenFromHeader(req, header, authScheme) ==
    LET auth == HeaderGet(req, header)
        l == Len(authScheme)
    IN  IF Len(auth) > l + 1 /\ ToLower(SliceTo(auth, l)) = ToLower(authScheme)
        THEN Extracted(SliceFrom(auth, l + 1), NilValue)
        ELSE Extracted(<<>>, ErrTokenMissing)

tokenFromQuery(req, param) ==
    LET token == QueryParam(req, param)
    IN  IF token = <<>>
        THEN Extracted(<<>>, ErrTokenMissing)
        ELSE Extracted(token, NilValue)

tokenFromParam(req, param) ==
    LET token == Param(req, param)
    IN  IF token = <<>>
        THEN Extracted(<<>>, ErrTokenMissing)
        ELSE Extracted(token, NilValue)

tokenFromCookie(req, name) ==
    LET cookie == Cookie(req, name)
    IN  IF cookie.err # NilValue
        THEN Extracted(<<>>, ErrTokenMissing)
        ELSE Extracted(cookie.Value, NilValue)

\* strings.Split(config.TokenLookup, ":") on the lookups that occur
SplitLookup(lookup) ==
    CASE lookup = "header:Authorization" -> <<"header", "Authorization">>
      [] lookup = "query:token" -> <<"query", "token">>
      [] lookup = "param:token" -> <<"param", "token">>
      [] lookup = "cookie:token" -> <<"cookie", "token">>

\* the extractor KeycloakWithConfig picks from the token lookup: the header
\* extractor unless the source is query, param or cookie
extractor(config, req) ==
    LET parts == SplitLookup(config.TokenLookup)
    IN  CASE parts[1] = "query" -> tokenFromQuery(req, parts[2])
          [] parts[1] = "param" -> tokenFromParam(req, parts[2])
          [] parts[1] = "cookie" -> tokenFromCookie(req, parts[2])
          [] OTHER -> tokenFromHeader(req, parts[2], config.AuthScheme)

---------------------------------------------------------------------------
(* Configuration and construction.  A hook field is TRUE when the hook is  *)
(* configured (non-nil).                                                   *)

\* middleware.DefaultSkipper returns false; the answer of a caller-supplied
\* skipper is an input of the request
SkipperSays(skipper, answer) == IF skipper = "custom" THEN answer ELSE FALSE

DefaultKeycloakConfig ==
    [Skipper |-> "DefaultSkipper",
     BeforeFunc |-> FALSE, SuccessHandler |-> FALSE,
     ErrorHandler |-> FALSE, ErrorHandlerWithContext |-> FALSE,
     KeycloakURL |-> "", KeycloakRealm |-> "",
     ContextKey |-> "user",
     TokenLookup |-> "header:Authorization",
     AuthScheme |-> Bearer,
     Claims |-> [type |-> "jwt.MapClaims"]]

DefaultKeycloakRolesConfig ==
    [Skipper |-> "DefaultSkipper",
     BeforeFunc |-> FALSE, SuccessHandler |-> FALSE,
     ErrorHandler |-> FALSE, ErrorHandlerWithContext |-> FALSE,
     KeycloakRoles |-> <<>>,
     TokenContextKey |-> "user",
     RolesContextKey |-> "roles"]

\* the configurations a caller may pass to KeycloakWithConfig, each with a
\* skipper of its own; Keycloak builds on the default skipper
KeycloakConfigs ==
    [Skipper : {"custom"},
     BeforeFunc : BOOLEAN, SuccessHandler : BOOLEAN,
     ErrorHandler : BOOLEAN, ErrorHandlerWithContext : BOOLEAN,
     KeycloakURL : {"", "http://localhost:8080"}, KeycloakRealm : {"test"},
     ContextKey : {"", "user", "sso"},
     TokenLookup : {"", "header:Authorization", "query:token", "param:token",
                    "cookie:token"},
     AuthScheme : {<<>>, Bearer},
     Claims : {NilValue, [type |-> "jwt.MapClaims"], CustomClaims}]

\* the names a required role is drawn from
RequiredNames == {"admin", "editor"}

\* the configurations a caller may pass to KeycloakRolesWithConfig, each with
\* a skipper of its own; KeycloakRoles builds on the default skipper
KeycloakRolesConfigs ==
    [Skipper : {"custom"},
     BeforeFunc : BOOLEAN, SuccessHandler : BOOLEAN,
     ErrorHandler : BOOLEAN, ErrorHandlerWithContext : BOOLEAN,
     KeycloakRoles : SeqsOf(RequiredNames, 0, MaxRequired),
     TokenContextKey : {"", "user", "sso"},
     RolesContextKey : {"", "roles", "perm"}]

\* a constructor either panics or returns the middleware built on the
\* configuration after its defaults are filled in
Panic(msg) == [type |-> "panic", msg |-> msg]

Middleware(kind, config) == [type |-> kind, config |-> config]

NoMiddleware == [type |-> "none"]

KeycloakWithConfig(config) ==
    LET c1 == IF config.Skipper = "nil"
              THEN [config EXCEPT !.Skipper = DefaultKeycloakConfig.Skipper]
              ELSE config
    IN  IF c1.KeycloakURL = ""
        THEN Panic("echo: keycloak middleware requires keycloak url")
        ELSE
        LET c2 == IF c1.ContextKey = ""
                  THEN [c1 EXCEPT !.ContextKey = DefaultKeycloakConfig.ContextKey]
                  ELSE c1
            c3 == IF c2.Claims = NilValue
                  THEN [c2 EXCEPT !.Claims = DefaultKeycloakConfig.Claims]
                  ELSE c2
            c4 == IF c3.TokenLookup = ""
                  THEN [c3 EXCEPT !.TokenLookup = DefaultKeycloakConfig.TokenLookup]
                  ELSE c3
            c5 == IF c4.AuthScheme = <<>>
                  THEN [c4 EXCEPT !.AuthScheme = DefaultKeycloakConfig.AuthScheme]
                  ELSE c4
        IN  Middleware("Keycloak", c5)

Keycloak(url, realm) ==
    KeycloakWithConfig(
        [DefaultKeycloakConfig EXCEPT !.KeycloakURL = url, !.KeycloakRealm = realm])

\* a faulty variant of KeycloakRolesWithConfig: the required roles are not
\* looked at
KeycloakRolesWithConfigUnchecked(config) ==
    LET c1 == IF config.Skipper = "nil"
              THEN [config EXCEPT !.Skipper = DefaultKeycloakRolesConfig.Skipper]
              ELSE config
        c2 == IF c1.TokenContextKey = ""
              THEN [c1 EXCEPT !.TokenContextKey =
                                  DefaultKeycloakRolesConfig.TokenContextKey]
              ELSE c1
    IN  Middleware("KeycloakRoles", c2)

KeycloakRolesWithConfig(config) ==
    LET c1 == IF config.Skipper = "nil"
              THEN [config EXCEPT !.Skipper = DefaultKeycloakRolesConfig.Skipper]
              ELSE config
    IN  IF Len(c1.KeycloakRoles) = 0
        THEN Panic("echo: keycloak roles middleware requires keycloak roles")
        ELSE
        LET c2 == IF c1.TokenContextKey = ""
                  THEN [c1 EXCEPT !.TokenContextKey =
                                      DefaultKeycloakRolesConfig.TokenContextKey]
                  ELSE c1
        IN  Middleware("KeycloakRoles", c2)

KeycloakRoles(roles) ==
    KeycloakRolesWithConfig([DefaultKeycloakRolesConfig EXCEPT !.KeycloakRoles = roles])

---------------------------------------------------------------------------
(* What a handler invocation did: the context it leaves, the calls it      *)
(* made in order, the value of its err variable at the end, what it        *)
(* returned and the raw token it extracted.                                *)

\* what the handler returns: the result of next(c), the result of an error
\* hook applied to err, an error value of its own, or nothing when it
\* panicked
Returned(kind, err) == [kind |-> kind, err |-> err]

NextResult == Returned("next", NilValue)

Panicked == Returned("panic", NilValue)

Ran(kind, c0, c, calls, err, ret, auth, skipped) ==
    [type |-> kind, c0 |-> c0, c |-> c, calls |-> calls, err |-> err, ret |-> ret,
     auth |-> auth, skipped |-> skipped]

NotRun == [type |-> "none"]

\* a faulty variant of BeforeCalls: the hook is never run
BeforeCallsNever(config) == <<>>

\* `if config.BeforeFunc != nil { config.BeforeFunc(c) }`
BeforeCalls(config) == IF config.BeforeFunc THEN <<"BeforeFunc">> ELSE <<>>

\* `if config.SuccessHandler != nil { config.SuccessHandler(c) }`
SuccessCalls(config) == IF config.SuccessHandler THEN <<"SuccessHandler">> ELSE <<>>

\* a faulty variant of Skipped: the skipper's answer is ignored
SkippedNever(config, answer) == FALSE

\* `if config.Skipper(c) { return next(c) }`
Skipped(config, answer) == SkipperSays(config.Skipper, answer)

---------------------------------------------------------------------------
(* The Keycloak middleware's handler (keycloak.go).                        *)

\* the error handling after a failed extraction: the error itself is the
\* default response
extractionFailure(config, err) ==
    IF config.ErrorHandler
    THEN [calls |-> <<"ErrorHandler">>, ret |-> Returned("ErrorHandler", err)]
    ELSE IF config.ErrorHandlerWithContext
    THEN [calls |-> <<"ErrorHandlerWithContext">>,
          ret |-> Returned("ErrorHandlerWithContext", err)]
    ELSE [calls |-> <<"default">>, ret |-> Returned("error", err)]

\* a faulty variant of validationFailure: the default response is the bare
\* error, as after a failed extraction
validationFailureBare(config, err) ==
    IF config.ErrorHandler
    THEN [calls |-> <<"ErrorHandler">>, ret |-> Returned("ErrorHandler", err)]
    ELSE IF config.ErrorHandlerWithContext
    THEN [calls |-> <<"ErrorHandlerWithContext">>,
          ret |-> Returned("ErrorHandlerWithContext", err)]
    ELSE [calls |-> <<"default">>, ret |-> Returned("error", err)]

\* the error handling after a failed validation
validationFailure(config, err) ==
    IF config.ErrorHandler
    THEN [calls |-> <<"ErrorHandler">>, ret |-> Returned("ErrorHandler", err)]
    ELSE IF config.ErrorHandlerWithContext
    THEN [calls |-> <<"ErrorHandlerWithContext">>,
          ret |-> Returned("ErrorHandlerWithContext", err)]
    ELSE [calls |-> <<"default">>,
          ret |-> Returned("error",
                      HTTPError(StatusUnauthorized, "invalid or expired token", err))]

\* `if _, ok := config.Claims.(jwt.Claims); ok`: true of every non-nil value
\* of the interface type jwt.Claims
ClaimsIsSet(config) == config.Claims # NilValue

\* the call made to the gocloak client
DecodeCall(config) ==
    IF ClaimsIsSet(config) THEN "DecodeAccessTokenCustomClaims" ELSE "DecodeAccessToken"

\* what the gocloak client may answer: an error, or a token, valid or not,
\* whose claims have the shape asked for
DecodeOutcomes(config) ==
    LET shapes == IF ClaimsIsSet(config) /\ config.Claims.type # "jwt.MapClaims"
                  THEN {config.Claims}
                  ELSE MapClaimsValues
    IN  {[token |-> NilValue, err |-> ErrDecode]}
            \cup {[token |-> Token(v, cl), err |-> NilValue] : v \in BOOLEAN, cl \in shapes}

\* a faulty variant of tokenAccepted: the validity flag is not looked at
tokenAcceptedUnchecked(err, token) == err = NilValue

\* `if err == nil && token.Valid`
tokenAccepted(err, token) == err = NilValue /\ token.Valid

\* the context after the success branch: `c.Set(config.ContextKey, token)`
bindToken(config, c, token) == Set(c, config.ContextKey, token)

KeycloakHandler(config, c, req, answer, dec) ==
    IF Skipped(config, answer)
    THEN Ran("Keycloak", c, c, <<"next">>, NilValue, NextResult, <<>>, TRUE)
    ELSE
    LET before == BeforeCalls(config)
        e == extractor(config, req)
    IN  IF e.err # NilValue
        THEN LET f == extractionFailure(config, e.err)
             IN  Ran("Keycloak", c, c, before \o <<"extractor">> \o f.calls,
                     e.err, f.ret, e.auth, FALSE)
        ELSE
        LET calls == before \o <<"extractor", DecodeCall(config)>>
        IN  IF tokenAccepted(dec.err, dec.token)
            THEN Ran("Keycloak", c, bindToken(config, c, dec.token),
                     calls \o <<"Set">> \o SuccessCalls(config) \o <<"next">>,
                     dec.err, NextResult, e.auth, FALSE)
            ELSE LET f == validationFailure(config, dec.err)
                 IN  Ran("Keycloak", c, c, calls \o f.calls, dec.err, f.ret,
                         e.auth, FALSE)

---------------------------------------------------------------------------
(* The KeycloakRoles middleware's handler (keycloak_roles.go).             *)

\* funk.ContainsString
ContainsString(s, v) == \E i \in 1..Len(s) : s[i] = v

\* `for _, r := range rolesRaw { roles = append(roles, r.(string)) }`: the
\* assertion r.(string) panics on an element that is no string
RECURSIVE appendRoles(_, _)
appendRoles(roles, rolesRaw) ==
    IF rolesRaw = <<>>
    THEN [panic |-> FALSE, roles |-> roles]
    ELSE IF Head(rolesRaw).type # "string"
    THEN [panic |-> TRUE, roles |-> roles]
    ELSE appendRoles(Append(roles, Head(rolesRaw).val), Tail(rolesRaw))

\* a faulty variant of checkRoles: one required role among the roles is enough
checkRolesAny(required, roles) ==
    IF \E i \in 1..Len(required) : ContainsString(roles, required[i])
    THEN NilValue
    ELSE ErrRolesInvalid

\* the loop over config.KeycloakRoles: the first required role that is not
\* among the roles sets err and ends the loop
RECURSIVE checkRoles(_, _)
checkRoles(required, roles) ==
    IF required = <<>>
    THEN NilValue
    ELSE IF ~ContainsString(roles, Head(required))
    THEN ErrRolesInvalid
    ELSE checkRoles(Tail(required), roles)

\* the nested type assertions on the token's claims
resolveRoles(config, token) ==
    LET claims == token.Claims
    IN  IF claims.type # "jwt.MapClaims"
        THEN [panic |-> FALSE, err |-> ErrClaimsMissing, roles |-> <<>>]
        ELSE
        LET realmAcces == claims.realm_access
        IN  IF realmAcces.type # "map[string]interface{}"
            THEN [panic |-> FALSE, err |-> ErrRealmAccessMissing, roles |-> <<>>]
            ELSE
            LET rolesRaw == realmAcces.roles
            IN  IF rolesRaw.type # "[]interface{}"
                THEN [panic |-> FALSE, err |-> ErrRolesMissing, roles |-> <<>>]
                ELSE
                LET a == appendRoles(<<>>, rolesRaw.elems)
                IN  IF a.panic
                    THEN [panic |-> TRUE, err |-> NilValue, roles |-> a.roles]
                    ELSE [panic |-> FALSE,
                          err |-> checkRoles(config.KeycloakRoles, a.roles),
                          roles |-> a.roles]

\* the context key the handler reads the token from
tokenKey(config) == DefaultKeycloakRolesConfig.TokenContextKey

\* a faulty variant of rolesAccepted: the validity flag is not looked at
rolesAcceptedUnchecked(err, token) == err = NilValue

\* `if err == nil && token.Valid`
rolesAccepted(err, token) == err = NilValue /\ token.Valid

\* a faulty variant of bindRoles: only the required roles are bound
bindRolesRequired(config, c, roles) ==
    Set(c, config.RolesContextKey, StringSlice(config.KeycloakRoles))

\* the context after the success branch: `c.Set(config.RolesContextKey, roles)`
bindRoles(config, c, roles) == Set(c, config.RolesContextKey, StringSlice(roles))

\* a faulty variant of rolesFailure: the hook with context is tried first
rolesFailureContextFirst(config, err) ==
    IF config.ErrorHandlerWithContext
    THEN [calls |-> <<"ErrorHandlerWithContext">>,
          ret |-> Returned("ErrorHandlerWithContext", err)]
    ELSE IF config.ErrorHandler
    THEN [calls |-> <<"ErrorHandler">>, ret |-> Returned("ErrorHandler", err)]
    ELSE [calls |-> <<"default">>,
          ret |-> Returned("error",
                      HTTPError(StatusForbidden, "code=403, message=invalid roles", err))]

\* the error handling of the roles middleware
rolesFailure(config, err) ==
    IF config.ErrorHandler
    THEN [calls |-> <<"ErrorHandler">>, ret |-> Returned("ErrorHandler", err)]
    ELSE IF config.ErrorHandlerWithContext
    THEN [calls |-> <<"ErrorHandlerWithContext">>,
          ret |-> Returned("ErrorHandlerWithContext", err)]
    ELSE [calls |-> <<"default">>,
          ret |-> Returned("error",
                      HTTPError(StatusForbidden, "code=403, message=invalid roles", err))]

KeycloakRolesHandler(config, c, answer) ==
    IF Skipped(config, answer)
    THEN Ran("KeycloakRoles", c, c, <<"next">>, NilValue, NextResult, <<>>, TRUE)
    ELSE
    LET before == BeforeCalls(config)
        token == Get(c, tokenKey(config))
    IN  IF token.type # "*jwt.Token"
        THEN Ran("KeycloakRoles", c, c, before, NilValue, Panicked, <<>>, FALSE)
        ELSE
        LET r == resolveRoles(config, token)
        IN  IF r.panic
            THEN Ran("KeycloakRoles", c, c, before, NilValue, Panicked, <<>>, FALSE)
            ELSE IF rolesAccepted(r.err, token)
            THEN Ran("KeycloakRoles", c, bindRoles(config, c, r.roles),
                     before \o <<"Set">> \o SuccessCalls(config) \o <<"next">>,
                     r.err, NextResult, <<>>, FALSE)
            ELSE LET f == rolesFailure(config, r.err)
                 IN  Ran("KeycloakRoles", c, c, before \o f.calls, r.err, f.ret,
                         <<>>, FALSE)

---------------------------------------------------------------------------
(* The state machine.                                                      *)

\* the state of the variables a study does not use
Idle == <<>>

Init ==
    /\ mw = NoMiddleware
    /\ ctx \in FreshContexts
    /\ out = NotRun
    /\ passed = {}
    /\ authKeys = {}
    /\ skipAnswer = FALSE
    /\ authHeader = Idle
    /\ extracted = Idle
    /\ claimsMap = Idle
    /\ served = Idle

\* the application builds the next middleware of the chain
ConstructKeycloakWithConfig ==
    /\ mw = NoMiddleware
    /\ "Keycloak" \notin passed
    /\ \E config \in KeycloakConfigs : mw' = KeycloakWithConfig(config)
    /\ UNCHANGED <<ctx, out, passed, authKeys, skipAnswer, aux>>

ConstructKeycloak ==
    /\ mw = NoMiddleware
    /\ "Keycloak" \notin passed
    /\ \E url \in {"", "http://localhost:8080"} : mw' = Keycloak(url, "test")
    /\ UNCHANGED <<ctx, out, passed, authKeys, skipAnswer, aux>>

ConstructKeycloakRolesWithConfig ==
    /\ mw = NoMiddleware
    /\ "KeycloakRoles" \notin passed
    /\ \E config \in KeycloakRolesConfigs : mw' = KeycloakRolesWithConfig(config)
    /\ UNCHANGED <<ctx, out, passed, authKeys, skipAnswer, aux>>

ConstructKeycloakRoles ==
    /\ mw = NoMiddleware
    /\ "KeycloakRoles" \notin passed
    /\ \E roles \in SeqsOf(RequiredNames, 0, MaxRequired) : mw' = KeycloakRoles(roles)
    /\ UNCHANGED <<ctx, out, passed, authKeys, skipAnswer, aux>>

\* the gocloak client answers only when the handler calls it
ClientAnswers(config, req, answer) ==
    LET unasked == [token |-> NilValue, err |-> ErrDecode]
        probe == KeycloakHandler(config, EmptyContext, req, answer, unasked)
    IN  IF ContainsString(probe.calls, DecodeCall(config))
        THEN DecodeOutcomes(config)
        ELSE {unasked}

\* the Keycloak middleware handles the request
HandleKeycloak ==
    /\ mw.type = "Keycloak"
    /\ out = NotRun
    /\ \E req \in Requests, answer \in BOOLEAN :
         \E dec \in ClientAnswers(mw.config, req, answer) :
           LET r == KeycloakHandler(mw.config, ctx, req, answer, dec)
           IN  /\ out' = r
               /\ ctx' = r.c
               /\ skipAnswer' = SkipperSays(mw.config.Skipper, answer)
               /\ authKeys' = IF ~r.skipped /\ r.ret.kind = "next"
                              THEN authKeys \cup {mw.config.ContextKey}
                              ELSE authKeys
    /\ UNCHANGED <<mw, passed, aux>>

\* the KeycloakRoles middleware handles the request
HandleKeycloakRoles ==
    /\ mw.type = "KeycloakRoles"
    /\ out = NotRun
    /\ \E answer \in BOOLEAN :
           LET r == KeycloakRolesHandler(mw.config, ctx, answer)
           IN  /\ out' = r
               /\ ctx' = r.c
               /\ skipAnswer' = SkipperSays(mw.config.Skipper, answer)
    /\ UNCHANGED <<mw, passed, authKeys, aux>>

\* next(c): the request goes on to the rest of the chain
ChainNext ==
    /\ out # NotRun
    /\ out.ret.kind = "next"
    /\ mw' = NoMiddleware
    /\ out' = NotRun
    /\ passed' = passed \cup {mw.type}
    /\ skipAnswer' = FALSE
    /\ UNCHANGED <<ctx, authKeys, aux>>

\* the handler has returned (or its panic was recovered) and the instance
\* is given another request
NewRequest ==
    /\ out # NotRun
    /\ ctx' \in FreshContexts
    /\ out' = NotRun
    /\ passed' = {}
    /\ authKeys' = {}
    /\ skipAnswer' = FALSE
    /\ UNCHANGED <<mw, aux>>

Next ==
    \/ ConstructKeycloakWithConfig
    \/ ConstructKeycloak
    \/ ConstructKeycloakRolesWithConfig
    \/ ConstructKeycloakRoles
    \/ HandleKeycloak
    \/ HandleKeycloakRoles
    \/ ChainNext
    \/ NewRequest

Spec == Init /\ [][Next]_vars

---------------------------------------------------------------------------
(* The header extractor on its own: every header value up to MaxHeader     *)
(* characters, and the values of HeaderValues, against a scheme.           *)

HeaderChars == {"B", "b", " ", "=", "a"}

HeaderInputs ==
    {[auth |-> a, authScheme |-> sch] :
        a \in SeqsOf(HeaderChars, 0, MaxHeader), sch \in {<<"B">>, <<"b", "B">>}}
        \cup {[auth |-> a, authScheme |-> Bearer] : a \in HeaderValues \cup {<<>>}}

InitHeader ==
    /\ mw = NoMiddleware
    /\ ctx = EmptyContext
    /\ out = NotRun
    /\ passed = {}
    /\ authKeys = {}
    /\ skipAnswer = FALSE
    /\ authHeader \in HeaderInputs
    /\ extracted = Idle
    /\ claimsMap = Idle
    /\ served = Idle

\* the extractor built by tokenFromHeader("Authorization", authScheme) runs
\* on a request with this Authorization header
ExtractFromHeader ==
    /\ extracted = Idle
    /\ extracted' = tokenFromHeader(Request("header", "Authorization", authHeader.auth),
                                    "Authorization", authHeader.authScheme)
    /\ UNCHANGED <<mw, ctx, out, passed, authKeys, skipAnswer, authHeader, claimsMap,
                   served>>

NextHeader == ExtractFromHeader

SpecHeader == InitHeader /\ [][NextHeader]_vars

---------------------------------------------------------------------------
(* The claims map of the default configuration.  DefaultKeycloakConfig is  *)
(* one package variable and its Claims one map; every instance built with  *)
(* no Claims of its own holds that map and hands it to the client for      *)
(* every request.  claimsMap is the content of the map; a token decoded    *)
(* into it has the map itself as its Claims.  The decodings are taken one  *)
(* after the other.                                                        *)

ClaimNames == {"sub", "realm_access"}

\* the claims a token carries: a value for each name, NilValue when the
\* token does not carry the claim
TokenPayloads ==
    {p \in [ClaimNames -> {NilValue,
                           [type |-> "string", val |-> "alice"],
                           [type |-> "string", val |-> "bob"],
                           [type |-> "map[string]interface{}",
                            roles |-> [type |-> "[]interface{}",
                                       elems |-> <<[type |-> "string", val |-> "admin"]>>]]}] :
        /\ p["sub"].type = "string"
        /\ p["realm_access"].type # "string"}

\* the instances that use the default claims
DefaultClaimsInstances ==
    {Keycloak("http://localhost:8080", "test")}
        \cup {KeycloakWithConfig([DefaultKeycloakConfig EXCEPT
                                    !.KeycloakURL = "http://localhost:8080",
                                    !.KeycloakRealm = "test",
                                    !.ContextKey = "sso"])}

\* the decoder fills the claims handed to it from the token: the entries
\* the token carries are written, the others stay as they are
DecodeInto(claims, payload) ==
    [k \in ClaimNames |-> IF payload[k] # NilValue THEN payload[k] ELSE claims[k]]

\* a request that has not reached the middleware
Waiting == [state |-> "waiting"]

InitClaims ==
    /\ mw = NoMiddleware
    /\ ctx = EmptyContext
    /\ out = NotRun
    /\ passed = {}
    /\ authKeys = {}
    /\ skipAnswer = FALSE
    /\ authHeader = Idle
    /\ extracted = Idle
    /\ claimsMap = [k \in ClaimNames |-> NilValue]
    /\ served = [r \in 1..NumRequests |-> Waiting]

\* an instance with the default claims handles request r: the client is
\* given the claims map of the configuration, decodes the token into it
\* and answers a token whose Claims is that map
ServeRequest(r) ==
    /\ served[r] = Waiting
    /\ \E inst \in DefaultClaimsInstances,
          req \in {NoCredentials, Request("header", "Authorization", Bearer \o <<" ">> \o abc123)},
          payload \in TokenPayloads, valid \in BOOLEAN :
         LET dec == [token |-> Token(valid, inst.config.Claims), err |-> NilValue]
             h == KeycloakHandler(inst.config, EmptyContext, req, FALSE, dec)
             asked == ContainsString(h.calls, DecodeCall(inst.config))
         IN  /\ served' = [served EXCEPT ![r] =
                             [state |-> IF h.ret.kind = "next" THEN "bound" ELSE "failed",
                              payload |-> IF asked THEN payload ELSE NilValue,
                              key |-> inst.config.ContextKey,
                              c |-> h.c]]
             /\ claimsMap' = IF asked THEN DecodeInto(claimsMap, payload) ELSE claimsMap
    /\ UNCHANGED <<mw, ctx, out, passed, authKeys, skipAnswer, authHeader, extracted>>

NextClaims == \E r \in 1..NumRequests : ServeRequest(r)

SpecClaims == InitClaims /\ [][NextClaims]_vars

---------------------------------------------------------------------------
(* Vocabulary of the properties.                                           *)

\* the current instance's handler made this call
Called(name) == ContainsString(out.calls, name)

\* the place of the first call of this name in the handler's calls, 0 if none
CallIndex(name) ==
    IF Called(name)
    THEN CHOOSE i \in 1..Len(out.calls) :
             out.calls[i] = name /\ \A j \in 1..(i - 1) : out.calls[j] # name
    ELSE 0

\* the handler of this kind of middleware has handled the request and its
\* skipper did not ask to skip it
Processed(kind) == out.type = kind /\ ~skipAnswer

\* the handler ended in its error handling
EndedInFailure == out.ret.kind \in {"ErrorHandler", "ErrorHandlerWithContext", "error"}

\* a context value is a Principal whose validity flag is set
IsValidPrincipal(v) == v.type = "*jwt.Token" /\ v.Valid

\* a token's claims hold realm_access.roles as a list of strings
HasRoleList(v) ==
    /\ v.type = "*jwt.Token"
    /\ v.Claims.type = "jwt.MapClaims"
    /\ v.Claims.realm_access.type = "map[string]interface{}"
    /\ v.Claims.realm_access.roles.type = "[]interface{}"
    /\ \A i \in 1..Len(v.Claims.realm_access.roles.elems) :
           v.Claims.realm_access.roles.elems[i].type = "string"

\* the role names of such a token, in claim order
RoleList(v) ==
    [i \in 1..Len(v.Claims.realm_access.roles.elems) |->
        v.Claims.realm_access.roles.elems[i].val]

\* every role of the sequence R occurs in the sequence S
AllIn(R, S) == \A i \in 1..Len(R) : \E j \in 1..Len(S) : S[j] = R[i]

\* some role of the sequence R occurs in the sequence S
SomeIn(R, S) == \E i \in 1..Len(R) : \E j \in 1..Len(S) : S[j] = R[i]

\* the Principal the roles handler found when it was entered
PrincipalRead == out.c0[DefaultKeycloakRolesConfig.TokenContextKey]

---------------------------------------------------------------------------
(* Properties.                                                             *)

ClaimC2 ==
    (Processed("KeycloakRoles") /\ IsValidPrincipal(PrincipalRead)
        /\ HasRoleList(PrincipalRead)
        /\ Len(mw.config.KeycloakRoles) > 1
        /\ SomeIn(mw.config.KeycloakRoles, RoleList(PrincipalRead)))
    => out.ret.kind = "next"

\* C3: the Keycloak middleware binds the Principal on success only.  When
\* its handler has processed a request and ended in its error handling, the
\* context is as it was on entry and next was not called; when it called
\* next, the configured slot holds a Principal whose validity flag is set.
ClaimC3 ==
    Processed("Keycloak")
    => /\ out.ret.kind \in {"next", "ErrorHandler", "ErrorHandlerWithContext", "error"}
       /\ EndedInFailure => (ctx = out.c0 /\ ~Called("Set") /\ ~Called("next"))
       /\ Called("next") => IsValidPrincipal(ctx[mw.config.ContextKey])

\* the client answered with a token that is not valid, and nothing was bound
WitnessC3 ==
    /\ Processed("Keycloak") /\ EndedInFailure
    /\ Called(DecodeCall(mw.config)) /\ out.err = NilValue
    /\ ctx = out.c0

\* C4: the roles middleware without a bound Principal fails with
\* ErrClaimsMissing.  When its handler has processed a request for which the
\* Keycloak middleware bound nothing and whose token slot holds no valid
\* Principal, it ended in its error handling with ErrClaimsMissing and left
\* the context as it was.
ClaimC4 ==
    (Processed("KeycloakRoles") /\ authKeys = {}
        /\ ~IsValidPrincipal(out.c0[mw.config.TokenContextKey]))
    => EndedInFailure /\ out.err = ErrClaimsMissing /\ ctx = out.c0

\* C5: with the same context key on both middlewares the roles middleware
\* authorizes on the Principal the Keycloak middleware bound.  When the
\* Keycloak middleware has bound a Principal with a role list under the key
\* the roles middleware is configured with, the roles handler calls next
\* exactly when every required role occurs in that list.
ClaimC5 ==
    (Processed("KeycloakRoles") /\ mw.config.TokenContextKey \in authKeys
        /\ HasRoleList(out.c0[mw.config.TokenContextKey]))
    => (out.ret.kind = "next"
            <=> AllIn(mw.config.KeycloakRoles,
                      RoleList(out.c0[mw.config.TokenContextKey])))

\* C6: without error hooks the roles middleware answers 500 to a missing
\* claim structure and 403 to missing roles only.  When its handler has
\* processed a request with a valid Principal and returned its default
\* response, the status is 500 for ErrClaimsMissing, ErrRealmAccessMissing
\* and ErrRolesMissing, and a status of 403 comes with ErrRolesInvalid.
ClaimC6 ==
    (Processed("KeycloakRoles") /\ out.ret.kind = "error"
        /\ IsValidPrincipal(PrincipalRead))
    => /\ out.err \in {ErrClaimsMissing, ErrRealmAccessMissing, ErrRolesMissing}
              => out.ret.err.Code = StatusInternalServerError
       /\ out.ret.err.Code = StatusForbidden => out.err = ErrRolesInvalid

\* C7: without error hooks the Keycloak middleware answers a failed
\* extraction (the client was not called) with ErrTokenMissing, status 400,
\* and a failed validation with status 401, the message "invalid or expired
\* token" and the client's error as Internal.
ClaimC7 ==
    (Processed("Keycloak") /\ ~Called("next")
        /\ ~mw.config.ErrorHandler /\ ~mw.config.ErrorHandlerWithContext)
    => /\ out.ret.kind = "error"
       /\ IF ~Called(DecodeCall(mw.config))
          THEN /\ out.ret.err = ErrTokenMissing
               /\ out.ret.err.Code = StatusBadRequest
          ELSE /\ out.ret.err.type = "*echo.HTTPError"
               /\ out.ret.err.Code = StatusUnauthorized
               /\ out.ret.err.Message = "invalid or expired token"
               /\ out.ret.err.Internal = out.err

\* the client's error is carried by the 401 response
WitnessC7 ==
    /\ Processed("Keycloak")
    /\ out.ret.kind = "error"
    /\ out.ret.err.Code = StatusUnauthorized
    /\ out.ret.err.Internal = ErrDecode

\* C8: a skipped request goes to next untouched.  When the skipper answered
\* true, the handler of either middleware made the one call next, returned
\* its result and left the context as it was.
ClaimC8 ==
    (out # NotRun /\ skipAnswer)
    => /\ out.calls = <<"next">>
       /\ out.ret = NextResult
       /\ ctx = out.c0

\* a request is skipped by an instance with every hook configured
WitnessC8 ==
    /\ out # NotRun /\ skipAnswer
    /\ mw.config.BeforeFunc /\ mw.config.SuccessHandler
    /\ mw.config.ErrorHandler /\ mw.config.ErrorHandlerWithContext
    /\ out.calls = <<"next">>

\* C9: the error hooks have a fixed precedence.  When a handler ended in
\* its error handling: with ErrorHandler configured it returned
\* ErrorHandler(err) and called neither the other hook nor built the default
\* response; else with ErrorHandlerWithContext configured it returned
\* ErrorHandlerWithContext(err, c); else it returned the default response.
ClaimC9 ==
    (out # NotRun /\ ~skipAnswer /\ out.ret.kind \notin {"next", "panic"})
    => /\ mw.config.ErrorHandler
              => /\ out.ret = Returned("ErrorHandler", out.err)
                 /\ ~Called("ErrorHandlerWithContext") /\ ~Called("default")
       /\ (~mw.config.ErrorHandler /\ mw.config.ErrorHandlerWithContext)
              => /\ out.ret = Returned("ErrorHandlerWithContext", out.err)
                 /\ ~Called("ErrorHandler") /\ ~Called("default")
       /\ (~mw.config.ErrorHandler /\ ~mw.config.ErrorHandlerWithContext)
              => /\ out.ret.kind = "error"
                 /\ ~Called("ErrorHandler") /\ ~Called("ErrorHandlerWithContext")

\* the roles middleware fails with both hooks configured
WitnessC9 ==
    /\ Processed("KeycloakRoles")
    /\ mw.config.ErrorHandler /\ mw.config.ErrorHandlerWithContext
    /\ out.ret = Returned("ErrorHandler", ErrRolesInvalid)

\* C10: on success the role slot holds every role of the Principal, in
\* claim order, and is bound before next is called.
ClaimC10 ==
    (Processed("KeycloakRoles") /\ out.ret.kind = "next")
    => /\ HasRoleList(PrincipalRead)
       /\ ctx[mw.config.RolesContextKey] = StringSlice(RoleList(PrincipalRead))
       /\ 0 < CallIndex("Set") /\ CallIndex("Set") < CallIndex("next")

\* roles [user, admin] with required [admin]: the slot holds [user, admin]
WitnessC10 ==
    /\ Processed("KeycloakRoles") /\ out.ret.kind = "next"
    /\ mw.config.KeycloakRoles = <<"admin">>
    /\ ctx[mw.config.RolesContextKey] = StringSlice(<<"user", "admin">>)

\* how often the handler made this call
CallCount(name) == Cardinality({i \in 1..Len(out.calls) : out.calls[i] = name})

\* the calls that end a handler's run: next, an error hook, the default
\* response
Dispatches == {"next", "ErrorHandler", "ErrorHandlerWithContext", "default"}

\* C11: an unset RolesContextKey means "roles".  When the handler of a roles
\* middleware whose RolesContextKey was left unset has called next, the
\* role list of the Principal is bound under "roles", as under KeycloakRoles.
ClaimC11 ==
    (Processed("KeycloakRoles") /\ out.ret.kind = "next"
        /\ mw.config.RolesContextKey = "")
    => ctx[DefaultKeycloakRolesConfig.RolesContextKey]
           = StringSlice(RoleList(PrincipalRead))

\* C12: a processed request ends in exactly one dispatch.  When the handler
\* of either middleware has processed a request, it made exactly one of the
\* calls next, ErrorHandler, ErrorHandlerWithContext and default response,
\* and made it once.
ClaimC12 ==
    (out # NotRun /\ ~skipAnswer)
    => /\ Cardinality({d \in Dispatches : Called(d)}) = 1
       /\ \A d \in Dispatches : CallCount(d) <= 1
       /\ out.ret.kind # "panic"

\* C13: required configuration is checked at construction.  No Keycloak
\* middleware exists with an empty KeycloakURL and no KeycloakRoles
\* middleware with an empty list of roles, and a construction that panicked
\* has handled no request.
ClaimC13 ==
    /\ mw.type = "Keycloak" => mw.config.KeycloakURL # ""
    /\ mw.type = "KeycloakRoles" => Len(mw.config.KeycloakRoles) > 0
    /\ out # NotRun => mw.type \in {"Keycloak", "KeycloakRoles"}
    /\ mw.type = "panic" => out = NotRun

\* the construction of a roles middleware without roles has panicked
WitnessC13 ==
    /\ mw.type = "panic"
    /\ mw.msg = "echo: keycloak roles middleware requires keycloak roles"
    /\ out = NotRun

\* C15: a role entry that is no string, or a missing roles list, is
\* ErrRolesMissing.  When the roles handler has processed a request whose
\* valid Principal has a realm_access mapping without a roles list, or with
\* a roles list holding an entry that is no string, it ended in its error
\* handling with ErrRolesMissing and did not call next.
ClaimC15 ==
    (Processed("KeycloakRoles") /\ IsValidPrincipal(PrincipalRead)
        /\ PrincipalRead.Claims.type = "jwt.MapClaims"
        /\ PrincipalRead.Claims.realm_access.type = "map[string]interface{}"
        /\ ~HasRoleList(PrincipalRead))
    => EndedInFailure /\ out.err = ErrRolesMissing /\ ~Called("next")

\* C17: the order of the steps of the Keycloak handler.  On a processed
\* request a configured BeforeFunc is called once, first, and before the
\* extractor; on success Set comes before a configured SuccessHandler and
\* that before next; SuccessHandler is not called on a failure.
ClaimC17 ==
    Processed("Keycloak")
    => /\ CallIndex("extractor") > 0
       /\ IF mw.config.BeforeFunc
          THEN /\ CallCount("BeforeFunc") = 1
               /\ CallIndex("BeforeFunc") = 1
               /\ CallIndex("BeforeFunc") < CallIndex("extractor")
          ELSE ~Called("BeforeFunc")
       /\ Called("next")
              => /\ 0 < CallIndex("Set")
                 /\ CallIndex("Set") < CallIndex("next")
                 /\ IF mw.config.SuccessHandler
                    THEN /\ CallCount("SuccessHandler") = 1
                         /\ CallIndex("Set") < CallIndex("SuccessHandler")
                         /\ CallIndex("SuccessHandler") < CallIndex("next")
                    ELSE ~Called("SuccessHandler")
       /\ ~Called("next") => ~Called("SuccessHandler")

\* a request fails at the extraction after the BeforeFunc has run, with a
\* SuccessHandler configured
WitnessC17 ==
    /\ Processed("Keycloak")
    /\ mw.config.BeforeFunc /\ mw.config.SuccessHandler
    /\ out.calls = <<"BeforeFunc", "extractor", "default">>

\* C18: the gocloak client is never given an empty raw token.  When the
\* Keycloak handler has called the client, the token it extracted is not
\* the empty string.
ClaimC18 ==
    (Processed("Keycloak") /\ Called(DecodeCall(mw.config)))
    => out.auth # <<>>

WellFormedHeader(auth, authScheme) ==
    /\ Len(auth) >= Len(authScheme) + 2
    /\ \A i \in 1..Len(authScheme) : LowerChar(auth[i]) = LowerChar(authScheme[i])
    /\ auth[Len(authScheme) + 1] = " "

\* what follows the scheme and the character after it
Remainder(auth, authScheme) ==
    [i \in 1..(Len(auth) - Len(authScheme) - 1) |-> auth[Len(authScheme) + 1 + i]]

\* C16: the header extractor returns a token for scheme, one space and a
\* non-empty remainder only.  For such a header value it returns the
\* remainder; for every other value it returns ErrTokenMissing.
ClaimC16 ==
    extracted # Idle
    => IF WellFormedHeader(authHeader.auth, authHeader.authScheme)
       THEN extracted = Extracted(Remainder(authHeader.auth, authHeader.authScheme), NilValue)
       ELSE extracted = Extracted(<<>>, ErrTokenMissing)

\* the claims of the Principal bound for request r: the content of the map
\* its token points to
PrincipalClaims(r) ==
    LET token == Get(served[r].c, served[r].key)
    IN  IF token.Claims = DefaultKeycloakConfig.Claims THEN claimsMap ELSE token.Claims

\* C14: no per-request data is shared between requests.  Whenever a
\* request has a Principal bound by an instance with the default claims,
\* the Principal's claims are the claims of that request's own token,
\* whatever other requests have been handled.
ClaimC14 ==
    served # Idle
    => \A r \in 1..NumRequests :
         served[r].state = "bound" => PrincipalClaims(r) = served[r].payload

=============================================================================
